---- MODULE Spec2Model ----
(***************************************************************************)
(* Server-side hydration annotation (annotateForHydration and the helpers  *)
(* it calls), modelled from src/unnamed/part_000.                          *)
(*                                                                         *)
(* The functions of the file are operators of the same name.  A function   *)
(* that mutates state takes the mutable state as a record `context` and    *)
(* returns the new one: besides the two fields of the HydrationContext     *)
(* (the SerializedViewCollection and the corruptedTextNodes map) the record*)
(* carries the module-level counter tViewSsrId, the ssrId fields of the    *)
(* TViews and the attributes the renderer has set.  One iteration of the   *)
(* `for (const viewRef of viewRefs)` loop is one step of the state machine.*)
(***************************************************************************)
EXTENDS Integers, Sequences, FiniteSets, TLC

\* ------------------------------------------------------------------ bounds
MaxRoots == 2    \* bootstrapped views (appRef._views) per pass
MaxViews == 2    \* child views per LContainer
MaxAdds == 3     \* calls of add on a collection used on its own

\* ------------------------------------------------- names from ./interfaces
TEMPLATES == "t"
CONTAINERS == "c"
ELEMENT_CONTAINERS == "e"
TEMPLATE_ID == "i"
NUM_ROOT_NODES == "r"
\* TextNodeMarker
EmptyNode == "ngetn"
Separator == "ngtns"

Undefined == "undefined"   \* the JS value undefined
NoTView == "null"          \* tNode.tView === null
Null == [type |-> "null"]  \* tView.data[i] is empty (local ref slot)

\* ------------------------------------------------ the rendered structures
\* A TNode: its type flag, the embedded TView of an <ng-template>, and the
\* slots (positions in tView.data, 0 for null) of its first child and of
\* its next sibling.
TNodeOf(type, tView, child, next) ==
  [type |-> type, tView |-> tView, child |-> child, next |-> next]

\* What the slot lView[i] holds for the tNode at tView.data[i]:
\*   "RNode"      a native node,
\*   "LView"      the LView of component `comp` (the tNode is its host),
\*   "LContainer" a container; its HOST is the LView of component `comp`,
\*                or a native node when comp = NoTView; its k-th child view
\*                instantiates views[((k-1) % Len(views)) + 1], and it has
\*                no child view when views is empty.
SlotOf(tNode, holds, comp, views) ==
  [tNode |-> tNode, holds |-> holds, comp |-> comp, views |-> views]

RNodeSlot(tNode) == SlotOf(tNode, "RNode", NoTView, <<>>)

\* tView.data[HEADER_OFFSET .. bindingStartIndex-1] is data[1 .. Len(data)]:
\* position p is slot i = HEADER_OFFSET + p - 1, so noOffsetIndex = p - 1.
TViews ==
  [ App |->
      [type |-> "Component", firstChild |-> 1, data |-> <<
         RNodeSlot(TNodeOf("Text", NoTView, 0, 2)),
         SlotOf(TNodeOf("Container", "Item", 0, 3), "LContainer", NoTView, <<"Item">>),
         SlotOf(TNodeOf("Element", NoTView, 0, 5), "LView", "Leaf", <<>>),
         RNodeSlot(Null),
         RNodeSlot(TNodeOf("ElementContainer", NoTView, 6, 0)),
         RNodeSlot(TNodeOf("Text", NoTView, 0, 0)) >>],
    App2 |->
      [type |-> "Component", firstChild |-> 1, data |-> <<
         RNodeSlot(TNodeOf("ElementContainer", NoTView, 2, 3)),
         RNodeSlot(TNodeOf("Element", NoTView, 0, 0)),
         SlotOf(TNodeOf("Element", NoTView, 0, 4), "LContainer", "Dyn", <<"LeafRoot", "Item">>),
         SlotOf(TNodeOf("Container", "Item2", 0, 0), "LContainer", NoTView, <<"Item2">>) >>],
    Item |->
      [type |-> "Embedded", firstChild |-> 1, data |-> <<
         RNodeSlot(TNodeOf("Text", NoTView, 0, 2)),
         SlotOf(TNodeOf("Element", NoTView, 0, 0), "LView", "Leaf", <<>>) >>],
    Item2 |->
      [type |-> "Embedded", firstChild |-> 1, data |-> <<
         RNodeSlot(TNodeOf("Element", NoTView, 0, 2)),
         RNodeSlot(TNodeOf("ElementContainer", NoTView, 3, 0)),
         RNodeSlot(TNodeOf("Text", NoTView, 0, 0)) >>],
    Leaf |->
      [type |-> "Component", firstChild |-> 1, data |-> <<
         RNodeSlot(TNodeOf("Text", NoTView, 0, 0)) >>],
    Dyn |->
      [type |-> "Component", firstChild |-> 1, data |-> <<
         SlotOf(TNodeOf("Element", NoTView, 0, 0), "LContainer", NoTView, <<>>) >>],
    AppRoot |->
      [type |-> "Root", firstChild |-> 1, data |-> <<
         SlotOf(TNodeOf("Element", NoTView, 0, 0), "LView", "App", <<>>) >>],
    App2Root |->
      [type |-> "Root", firstChild |-> 1, data |-> <<
         SlotOf(TNodeOf("Element", NoTView, 0, 0), "LView", "App2", <<>>) >>],
    LeafRoot |->
      [type |-> "Root", firstChild |-> 1, data |-> <<
         SlotOf(TNodeOf("Element", NoTView, 0, 0), "LView", "Leaf", <<>>) >>] ]

TViewNames == DOMAIN TViews

\* An LView is identified by its path from a bootstrapped view.
LViewOf(id, tv) == [id |-> id, tv |-> tv]

\* appRef._views: the views that can be bootstrapped (ViewRef._lView).
ViewRefs ==
  [ r1 |-> LViewOf(<<"r1">>, "AppRoot"),
    r2 |-> LViewOf(<<"r2">>, "AppRoot"),
    r3 |-> LViewOf(<<"r3">>, "App2Root"),
    r4 |-> LViewOf(<<"r4">>, "Item"),
    r5 |-> LViewOf(<<"r5">>, "LeafRoot") ]

\* The component LViews whose lView[HOST] is null.
Hostless == { <<"r5", 1>> }

\* A site is a slot of a template: [tv, p].
Site(tv, p) == [tv |-> tv, p |-> p]

\* The sites that are component hosts (may carry ngSkipHydration).
HostSites ==
  { s \in [tv : TViewNames, p : 1..6] :
      /\ s.p <= Len(TViews[s.tv].data)
      /\ TViews[s.tv].data[s.p].comp # NoTView }

\* Live text nodes: the characters of textContent and whether the node
\* that follows in the DOM, as rendered, is a text node.
TextOf(content, nextIsText) == [content |-> content, nextIsText |-> nextIsText]

\* The text sites whose live node varies between renders, and the renderings
\* of them; every other text site renders StaticText.
TextSites == { Site("App", 1), Site("Leaf", 1) }

TextVariants ==
  { (Site("App", 1) :> TextOf(<<" ", "\n">>, TRUE)) @@
    (Site("Leaf", 1) :> TextOf(<<"a", " ">>, TRUE)),
    (Site("App", 1) :> TextOf(<< >>, FALSE)) @@
    (Site("Leaf", 1) :> TextOf(<<"a">>, FALSE)) }

StaticText == TextOf(<<"a", " ", "b">>, FALSE)

\* const x = e; ... : e is evaluated first, once, and its value is named in
\* what follows.
Bind(e, F(_)) == CHOOSE r \in { F(x) : x \in {e} } : TRUE

\* ---------------------------------------------------------- pure helpers
RECURSIVE Join(_)
Join(ss) ==
  IF ss = << >> THEN ""
  ELSE IF Len(ss) = 1 THEN ss[1]
  ELSE ss[1] \o "," \o Join(Tail(ss))

RECURSIVE Ascending(_)
Ascending(S) ==
  IF S = {} THEN << >>
  ELSE Bind(CHOOSE x \in S : \A y \in S : x <= y, LAMBDA m :
            <<m>> \o Ascending(S \ {m}))

Quote(s) == "\"" \o s \o "\""

\* A JS object with string keys is the sequence of its properties
\* [k, v] in insertion order; an object keyed by slot offsets is a
\* function (integer keys enumerate in ascending order).
Prop(k, v) == [k |-> k, v |-> v]

HasKey(obj, key) == \E j \in 1..Len(obj) : obj[j].k = key

Get(obj, key) == obj[CHOOSE j \in 1..Len(obj) : obj[j].k = key].v

\* ngh[key] ??= {}; ngh[key][noOffsetIndex] = value;
SetSlot(ngh, key, noOffsetIndex, value) ==
  IF HasKey(ngh, key)
  THEN [j \in 1..Len(ngh) |->
          IF ngh[j].k = key
          THEN Prop(key, (noOffsetIndex :> value) @@ ngh[j].v)
          ELSE ngh[j]]
  ELSE Append(ngh, Prop(key, (noOffsetIndex :> value)))

\* JSON.stringify of a SerializedView / SerializedContainerView: properties
\* in enumeration order, properties whose value is undefined left out.
RECURSIVE JSONstringify(_)
JSONstringify(obj) ==
  LET Value(pr) ==
        IF pr.k = TEMPLATE_ID THEN Quote(pr.v)
        ELSE IF pr.k = NUM_ROOT_NODES THEN ToString(pr.v)
        ELSE Bind(Ascending(DOMAIN pr.v), LAMBDA offs :
        IF pr.k = TEMPLATES THEN
          Bind([j \in 1..Len(offs) |->
                 Quote(ToString(offs[j])) \o ":" \o Quote(pr.v[offs[j]])],
               LAMBDA parts : "{" \o Join(parts) \o "}")
        ELSE IF pr.k = ELEMENT_CONTAINERS THEN
          Bind([j \in 1..Len(offs) |->
                 Quote(ToString(offs[j])) \o ":" \o ToString(pr.v[offs[j]])],
               LAMBDA parts : "{" \o Join(parts) \o "}")
        ELSE
          Bind([j \in 1..Len(offs) |->
                 Quote(ToString(offs[j])) \o ":[" \o
                 Bind([n \in 1..Len(pr.v[offs[j]]) |->
                        JSONstringify(pr.v[offs[j]][n])],
                      LAMBDA views : Join(views)) \o "]"],
               LAMBDA parts : "{" \o Join(parts) \o "}"))
  IN Bind(SelectSeq(obj, LAMBDA pr :
            ~(pr.k = TEMPLATE_ID /\ pr.v = Undefined)), LAMBDA defined :
     Bind([j \in 1..Len(defined) |->
            Quote(defined[j].k) \o ":" \o Value(defined[j])], LAMBDA parts :
     "{" \o Join(parts) \o "}"))

\* The content of a descriptor as a mapping: the properties in a fixed
\* order of keys, undefined written out.  Two descriptors are equal as
\* mappings exactly when these strings are equal.
RECURSIVE Canon(_)
Canon(obj) ==
  LET Value(pr) ==
        LET offs == Ascending(DOMAIN pr.v) IN
        IF pr.k = TEMPLATE_ID THEN pr.v
        ELSE IF pr.k = NUM_ROOT_NODES THEN ToString(pr.v)
        ELSE IF pr.k = TEMPLATES THEN
          Join([j \in 1..Len(offs) |-> ToString(offs[j]) \o "=" \o pr.v[offs[j]]])
        ELSE IF pr.k = ELEMENT_CONTAINERS THEN
          Join([j \in 1..Len(offs) |->
                 ToString(offs[j]) \o "=" \o ToString(pr.v[offs[j]])])
        ELSE
          Join([j \in 1..Len(offs) |->
                 ToString(offs[j]) \o "=[" \o
                 Join([n \in 1..Len(pr.v[offs[j]]) |-> Canon(pr.v[offs[j]][n])])
                 \o "]"])
      keys == <<CONTAINERS, ELEMENT_CONTAINERS, TEMPLATE_ID, NUM_ROOT_NODES, TEMPLATES>>
      present == SelectSeq(keys, LAMBDA key : HasKey(obj, key))
  IN "(" \o Join([j \in 1..Len(present) |->
            present[j] \o ":" \o "(" \o Value(Prop(present[j], Get(obj, present[j]))) \o ")"])
     \o ")"

\* rNode.textContent.replace(/\s/gm, '')
Whitespace == {" ", "\n", "\t"}

\* Mutant: nothing is removed.
StripNothing(content) == content

StripWhitespace(content) == SelectSeq(content, LAMBDA ch : ch \notin Whitespace)

VARIABLES
  pc,                 \* position in annotateForHydration: "idle", "loop", "done"
  viewRefs,           \* appRef._views of the running pass (names of ViewRefs)
  k,                  \* position of the for-loop in viewRefs
  skip,               \* host sites whose element carries ngSkipHydration
  text,               \* the live text nodes rendered at the sites of TextSites
  numViews,           \* child views in each LContainer
  tViewSsrId,         \* the global counter
  ssrId,              \* tView.ssrId of every TView
  views,              \* SerializedViewCollection.views
  indexByContent,     \* SerializedViewCollection.indexByContent
  corruptedTextNodes, \* the Map of the pass: text node -> TextNodeMarker
  attrs,              \* DOM: value of the ngh attribute of host elements
  after,              \* DOM: comments inserted after a text node, nearest first
  transferState,      \* TransferState store: key -> value
  addCalls,           \* history: calls of SerializedViewCollection.add
  serialized,         \* history: calls of serializeLView
  setAttribute,       \* history: calls of renderer.setAttribute, each with the
                      \* number of serializeLView calls that had returned
  inserted,           \* history: per loop iteration, the map handed to
                      \* insertCorruptedTextNodeMarkers (empty: not called)
  setCalls,           \* history: number of transferState.set calls of the pass
  allSerializedViews  \* what a caller of getAll holds: which array object it
                      \* is and the elements it had when getAll returned

vars == <<pc, viewRefs, k, skip, text, numViews, tViewSsrId, ssrId, views,
          indexByContent, corruptedTextNodes, attrs, after, transferState,
          addCalls, serialized, setAttribute, inserted, setCalls,
          allSerializedViews>>

\* Mutant: every root is given a new, empty SerializedViewCollection.
ContextWithFreshCollection ==
  [views |-> << >>, indexByContent |-> << >>,
   corruptedTextNodes |-> corruptedTextNodes,
   tViewSsrId |-> tViewSsrId, ssrId |-> ssrId,
   attrs |-> attrs, after |-> after,
   addCalls |-> addCalls, serialized |-> serialized,
   setAttribute |-> setAttribute]

\* The mutable state the functions below read and write.
Context ==
  [views |-> views, indexByContent |-> indexByContent,
   corruptedTextNodes |-> corruptedTextNodes,
   tViewSsrId |-> tViewSsrId, ssrId |-> ssrId,
   attrs |-> attrs, after |-> after,
   addCalls |-> addCalls, serialized |-> serialized,
   setAttribute |-> setAttribute]

Ret(ret, context) == [ret |-> ret, context |-> context]

\* ------------------------------------------------- reading the structures
\* A native node: its identity and whether it carries ngSkipHydration.
RNode(id, skipHydration) == [id |-> id, skipHydration |-> skipHydration]
NoNode == [id |-> << >>, skipHydration |-> FALSE]   \* null

SlotAt(lView, p) == TViews[lView.tv].data[p]

isRootView(lView) == TViews[lView.tv].type = "Root"

\* lView[i] when it is the LView of a component; HOST is its host element.
ComponentLViewAt(lView, p) ==
  [id |-> lView.id \o <<p>>, tv |-> SlotAt(lView, p).comp,
   host |-> IF (lView.id \o <<p>>) \in Hostless THEN NoNode
            ELSE RNode(lView.id \o <<p>>, Site(lView.tv, p) \in skip)]

\* lView[i] when it is an LContainer: HOST and the child views.
LContainerAt(lView, p) ==
  Bind(SlotAt(lView, p), LAMBDA slot :
  [hostIsLView |-> slot.comp # NoTView,
   host |-> IF slot.comp # NoTView
            THEN [id |-> lView.id \o <<p, 0>>, tv |-> slot.comp,
                  host |-> RNode(lView.id \o <<p, 0>>, Site(lView.tv, p) \in skip)]
            ELSE RNode(lView.id \o <<p>>, FALSE),
   views |-> [n \in 1..(IF slot.views = << >> THEN 0 ELSE numViews) |->
                [id |-> lView.id \o <<p, n>>,
                 tv |-> slot.views[((n - 1) % Len(slot.views)) + 1],
                 host |-> NoNode]]])

\* unwrapRNode(lView[i])
unwrapRNode(lView, p) ==
  Bind(SlotAt(lView, p), LAMBDA slot :
  IF slot.holds = "LView" THEN ComponentLViewAt(lView, p).host
  ELSE IF slot.holds = "LContainer" /\ slot.comp # NoTView
  THEN RNode(lView.id \o <<p, 0>>, Site(lView.tv, p) \in skip)
  ELSE RNode(lView.id \o <<p>>, FALSE))

\* The live text node at a text slot.
TextAt(lView, p) ==
  IF Site(lView.tv, p) \in TextSites THEN text[Site(lView.tv, p)] ELSE StaticText

\* rNode.nextSibling?.nodeType === Node.TEXT_NODE
NextSiblingIsText(lView, p, context) ==
  IF (lView.id \o <<p>>) \in DOMAIN context.after
  THEN FALSE
  ELSE TextAt(lView, p).nextIsText

\* getComponentLViewForHydration(viewRef): null for an embedded view, else
\* the component LView under the root view.
NullLView == [id |-> << >>, tv |-> NoTView, host |-> NoNode]
getComponentLViewForHydration(viewRef) ==
  IF TViews[viewRef.tv].type = "Embedded" THEN NullLView
  ELSE IF isRootView(viewRef) THEN ComponentLViewAt(viewRef, 1)
  ELSE viewRef

\* ------------------------------------------------------------ the functions
\* Mutant: the cached id is not consulted; every call mints a new id.
getSsrIdAlwaysMints(tView, context) ==
  Ret("t" \o ToString(context.tViewSsrId),
      [context EXCEPT !.ssrId[tView] = "t" \o ToString(context.tViewSsrId),
                      !.tViewSsrId = @ + 1])

getSsrId(tView, context) ==
  IF context.ssrId[tView] = Undefined
  THEN Ret("t" \o ToString(context.tViewSsrId),
           [context EXCEPT !.ssrId[tView] = "t" \o ToString(context.tViewSsrId),
                           !.tViewSsrId = @ + 1])
  ELSE Ret(context.ssrId[tView], context)

\* The record of one call of add in the history.
AddCall(serializedView, r, context) ==
  Ret(r.ret, [r.context EXCEPT !.addCalls = Append(@,
        [serializedView |-> serializedView, index |-> r.ret,
         before |-> context.views, after |-> r.context.views])])

\* Mutant: a new descriptor is put at the front of views.
addAtFront(serializedView, context) ==
  Bind(JSONstringify(serializedView), LAMBDA viewAsString :
  AddCall(serializedView,
          IF viewAsString \notin DOMAIN context.indexByContent
          THEN Ret(Len(context.views), [context EXCEPT
                 !.views = <<serializedView>> \o @,
                 !.indexByContent = (viewAsString :> Len(context.views)) @@ @])
          ELSE Ret(context.indexByContent[viewAsString], context),
          context))

\* Mutant: the key is the content string and the position of the call.
addKeyedByCall(serializedView, context) ==
  Bind(JSONstringify(serializedView) \o ToString(Len(context.addCalls)),
       LAMBDA viewAsString :
  AddCall(serializedView,
          IF viewAsString \notin DOMAIN context.indexByContent
          THEN Ret(Len(context.views), [context EXCEPT
                 !.views = Append(@, serializedView),
                 !.indexByContent = (viewAsString :> Len(context.views)) @@ @])
          ELSE Ret(context.indexByContent[viewAsString], context),
          context))

\* Mutant: the lookup is skipped; every descriptor is appended.
addAlwaysAppends(serializedView, context) ==
  Bind(JSONstringify(serializedView), LAMBDA viewAsString :
  AddCall(serializedView,
          Ret(Len(context.views), [context EXCEPT
                !.views = Append(@, serializedView),
                !.indexByContent = (viewAsString :> Len(context.views)) @@ @]),
          context))

\* SerializedViewCollection.add
add(serializedView, context) ==
  Bind(JSONstringify(serializedView), LAMBDA viewAsString :
  AddCall(serializedView,
          IF viewAsString \notin DOMAIN context.indexByContent
          THEN Ret(Len(context.views), [context EXCEPT
                 !.views = Append(@, serializedView),
                 !.indexByContent = (viewAsString :> Len(context.views)) @@ @])
          ELSE Ret(context.indexByContent[viewAsString], context),
          context))

\* SerializedViewCollection.getAll
getAll(context) == context.views

\* The array getAll returns is the array object the field views holds, not a
\* copy (return this.views): what is read from it later is what the field
\* holds then.  atCall: its elements when getAll returned.
ArrayReturned(elements) == [array |-> "this.views", atCall |-> elements]
NoArray == [array |-> "none", atCall |-> << >>]

\* collectNativeNodes(tView, lView, tNode, result): the native nodes at the
\* top level of the subtree that starts at tNode and continues through its
\* next siblings (no ICU or projection nodes in the modelled templates).
RECURSIVE collectNativeNodes(_, _, _, _)
RECURSIVE collectViews(_, _, _)
collectViews(lViews, n, result) ==
  IF n > Len(lViews) THEN result
  ELSE collectViews(lViews, n + 1,
         collectNativeNodes(lViews[n].tv, lViews[n],
                            TViews[lViews[n].tv].firstChild, result))

collectNativeNodes(tView, lView, tNode, result) ==
  IF tNode = 0 THEN result
  ELSE
    Bind(SlotAt(lView, tNode), LAMBDA slot :
    Bind(Append(result, unwrapRNode(lView, tNode)), LAMBDA r1 :
    Bind(IF slot.holds = "LContainer"
         THEN Bind(LContainerAt(lView, tNode), LAMBDA lContainer :
                   collectViews(lContainer.views, 1, r1))
         ELSE r1, LAMBDA r2 :
    Bind(IF slot.tNode.type = "ElementContainer"
         THEN collectNativeNodes(tView, lView, slot.tNode.child, r2)
         ELSE r2, LAMBDA r3 :
    collectNativeNodes(tView, lView, slot.tNode.next, r3)))))

\* Mutant: the nodes are collected from the first child of the view, not
\* from the tNode given.
calcNumRootNodesOfView(tView, lView, tNode) ==
  Len(collectNativeNodes(tView, lView, TViews[tView].firstChild, << >>))

calcNumRootNodes(tView, lView, tNode) ==
  Len(collectNativeNodes(tView, lView, tNode, << >>))

\* The text branch of serializeLView (lines 257-264).
recordCorruptedTextNode(lView, p, context) ==
  IF StripWhitespace(TextAt(lView, p).content) = << >>
  THEN [context EXCEPT !.corruptedTextNodes =
          (unwrapRNode(lView, p).id :> EmptyNode) @@ @]
  ELSE IF NextSiblingIsText(lView, p, context)
  THEN [context EXCEPT !.corruptedTextNodes =
          (unwrapRNode(lView, p).id :> Separator) @@ @]
  ELSE context

RECURSIVE serializeLView(_, _)
RECURSIVE serializeLViewFrom(_, _, _, _)
RECURSIVE serializeLContainerFrom(_, _, _, _)

\* The loop of serializeLContainer from child view i on (lines 136-166).
serializeLContainerFrom(lContainer, i, result, context) ==
  IF i > Len(lContainer.views) THEN Ret(result, context)
  ELSE
    Bind(IF isRootView(lContainer.views[i])
         THEN ComponentLViewAt(lContainer.views[i], 1)
         ELSE lContainer.views[i], LAMBDA childLView :
    Bind(TViews[childLView.tv].type = "Component", LAMBDA isComponent :
    Bind(IF isComponent
         THEN Ret(context.ssrId[childLView.tv], context)
         ELSE getSsrId(childLView.tv, context), LAMBDA template :
    Bind(IF isComponent THEN 1
         ELSE calcNumRootNodes(childLView.tv, childLView,
                               TViews[childLView.tv].firstChild), LAMBDA numRootNodes :
    Bind(serializeLView(lContainer.views[i], template.context), LAMBDA s :
    serializeLContainerFrom(lContainer, i + 1,
      Append(result, <<Prop(TEMPLATE_ID, template.ret),
                       Prop(NUM_ROOT_NODES, numRootNodes)>> \o s.ret),
      s.context))))))

\* Mutant: the loop starts one child view too late.
serializeLContainerSkipsFirst(lContainer, context) ==
  serializeLContainerFrom(lContainer, 2, << >>, context)

serializeLContainer(lContainer, context) ==
  serializeLContainerFrom(lContainer, 1, << >>, context)

\* Mutant: the attribute is written with the index after the one returned.
annotateHostElementOffByOne(element, lView, context) ==
  Bind(serializeLView(lView, context), LAMBDA ngh :
  Bind(add(ngh.ret, ngh.context), LAMBDA index :
  [index.context EXCEPT
     !.attrs = (element.id :> ToString(index.ret + 1)) @@ @,
     !.setAttribute = Append(@,
        [element |-> element, lView |-> lView.id, ngh |-> ngh.ret,
         value |-> ToString(index.ret + 1),
         at |-> Len(index.context.serialized)])]))

annotateHostElementForHydration(element, lView, context) ==
  Bind(serializeLView(lView, context), LAMBDA ngh :
  Bind(add(ngh.ret, ngh.context), LAMBDA index :
  [index.context EXCEPT
     !.attrs = (element.id :> ToString(index.ret)) @@ @,
     !.setAttribute = Append(@,
        [element |-> element, lView |-> lView.id, ngh |-> ngh.ret,
         value |-> ToString(index.ret),
         at |-> Len(index.context.serialized)])]))

\* Mutant: CONTAINERS is registered only for a container with child views.
serializeContainerSlotOmitsEmpty(lView, p, ngh, context) ==
  Bind(SlotAt(lView, p).tNode.tView, LAMBDA embeddedTView :
  Bind(LContainerAt(lView, p), LAMBDA lContainer :
  Bind(IF embeddedTView # NoTView
       THEN getSsrId(embeddedTView, context)
       ELSE Ret(Undefined, context), LAMBDA id :
  Bind(IF lContainer.hostIsLView /\ ~lContainer.host.host.skipHydration
       THEN annotateHostElementForHydration(
              lContainer.host.host, lContainer.host, id.context)
       ELSE id.context, LAMBDA context2 :
  Bind(serializeLContainer(lContainer, context2), LAMBDA c :
  Bind(IF embeddedTView # NoTView
       THEN SetSlot(ngh, TEMPLATES, p - 1, id.ret)
       ELSE ngh, LAMBDA ngh2 :
  Ret(IF c.ret # << >> THEN SetSlot(ngh2, CONTAINERS, p - 1, c.ret) ELSE ngh2,
      c.context)))))))

\* Mutant: the child views are serialized before the host is annotated.
serializeContainerSlotHostLast(lView, p, ngh, context) ==
  Bind(SlotAt(lView, p).tNode.tView, LAMBDA embeddedTView :
  Bind(LContainerAt(lView, p), LAMBDA lContainer :
  Bind(IF embeddedTView # NoTView
       THEN getSsrId(embeddedTView, context)
       ELSE Ret(Undefined, context), LAMBDA id :
  Bind(serializeLContainer(lContainer, id.context), LAMBDA c :
  Bind(IF lContainer.hostIsLView /\ ~lContainer.host.host.skipHydration
       THEN annotateHostElementForHydration(
              lContainer.host.host, lContainer.host, c.context)
       ELSE c.context, LAMBDA context2 :
  Ret(SetSlot(IF embeddedTView # NoTView
              THEN SetSlot(ngh, TEMPLATES, p - 1, id.ret)
              ELSE ngh,
              CONTAINERS, p - 1, c.ret),
      context2))))))

\* The container branch of serializeLView (lines 193-215).
serializeContainerSlot(lView, p, ngh, context) ==
  Bind(SlotAt(lView, p).tNode.tView, LAMBDA embeddedTView :
  Bind(LContainerAt(lView, p), LAMBDA lContainer :
  Bind(IF embeddedTView # NoTView
       THEN getSsrId(embeddedTView, context)
       ELSE Ret(Undefined, context), LAMBDA id :
  Bind(IF lContainer.hostIsLView /\ ~lContainer.host.host.skipHydration
       THEN annotateHostElementForHydration(
              lContainer.host.host, lContainer.host, id.context)
       ELSE id.context, LAMBDA context2 :
  Bind(serializeLContainer(lContainer, context2), LAMBDA c :
  Ret(SetSlot(IF embeddedTView # NoTView
              THEN SetSlot(ngh, TEMPLATES, p - 1, id.ret)
              ELSE ngh,
              CONTAINERS, p - 1, c.ret),
      c.context))))))

\* The component branch of serializeLView (lines 216-221).
serializeComponentSlot(lView, p, ngh, context) ==
  Bind(unwrapRNode(lView, p), LAMBDA targetNode :
  Bind(ComponentLViewAt(lView, p), LAMBDA componentLView :
  IF ~targetNode.skipHydration
  THEN Ret(ngh, annotateHostElementForHydration(targetNode, componentLView, context))
  ELSE Ret(ngh, context)))

\* One iteration of the loop of serializeLView, at position p, that is at
\* slot i = HEADER_OFFSET + p - 1 with noOffsetIndex = p - 1 (lines 184-266).
serializeSlot(lView, p, ngh, context) ==
  Bind(SlotAt(lView, p), LAMBDA slot :
  IF slot.tNode = Null THEN Ret(ngh, context)
  ELSE IF slot.holds = "LContainer" THEN serializeContainerSlot(lView, p, ngh, context)
  ELSE IF slot.holds = "LView" THEN serializeComponentSlot(lView, p, ngh, context)
  ELSE IF slot.tNode.type = "ElementContainer"
  THEN Ret(SetSlot(ngh, ELEMENT_CONTAINERS, p - 1,
                   calcNumRootNodes(lView.tv, lView, slot.tNode.child)), context)
  ELSE IF slot.tNode.type = "Text"
  THEN Ret(ngh, recordCorruptedTextNode(lView, p, context))
  ELSE Ret(ngh, context))

\* The loop of serializeLView from position p on (lines 183-267).
serializeLViewFrom(lView, p, ngh, context) ==
  IF p > Len(TViews[lView.tv].data) THEN Ret(ngh, context)
  ELSE Bind(serializeSlot(lView, p, ngh, context), LAMBDA step :
       serializeLViewFrom(lView, p + 1, step.ret, step.context))

\* Mutant: the loop over the slots starts one slot too late.
serializeLViewSkipsFirstSlot(lView, context) ==
  Bind(serializeLViewFrom(lView, 2, << >>, context), LAMBDA r :
  Ret(r.ret, [r.context EXCEPT !.serialized = Append(@,
        [lView |-> lView.id, tv |-> lView.tv, ngh |-> r.ret])]))

serializeLView(lView, context) ==
  Bind(serializeLViewFrom(lView, 1, << >>, context), LAMBDA r :
  Ret(r.ret, [r.context EXCEPT !.serialized = Append(@,
        [lView |-> lView.id, tv |-> lView.tv, ngh |-> r.ret])]))

\* textNode.after(doc.createComment(marker)) for every entry of the map.
insertCorruptedTextNodeMarkers(map, doc) ==
  [id \in DOMAIN doc \cup DOMAIN map |->
     IF id \in DOMAIN map
     THEN <<map[id]>> \o (IF id \in DOMAIN doc THEN doc[id] ELSE << >>)
     ELSE doc[id]]

\* ------------------------------------------------------------- the actions
NGH_DATA_KEY == "__nghData__"

\* The roots a pass can be given: distinct bootstrapped views, in bootstrap
\* order; r2, the second instance of the component of r1, is only bootstrapped
\* after r1.
RootLists ==
  { s \in UNION { [1..n -> DOMAIN ViewRefs] : n \in 0..MaxRoots } :
      /\ \A a, b \in DOMAIN s : a # b => s[a] # s[b]
      /\ \A b \in DOMAIN s : s[b] = "r2" => \E a \in 1..(b - 1) : s[a] = "r1" }

\* The renderings of the ngSkipHydration attribute: on no host site or on one.
SkipSets == { {} } \cup { {s} : s \in HostSites }

Init ==
  /\ pc = "idle" /\ viewRefs = << >> /\ k = 1
  /\ skip = {} /\ text \in TextVariants /\ numViews = 0
  /\ tViewSsrId = 0 /\ ssrId = [tv \in TViewNames |-> Undefined]
  /\ views = << >> /\ indexByContent = << >>
  /\ corruptedTextNodes = << >> /\ attrs = << >> /\ after = << >>
  /\ transferState = << >>
  /\ addCalls = << >> /\ serialized = << >> /\ setAttribute = << >>
  /\ inserted = << >> /\ setCalls = 0
  /\ allSerializedViews = NoArray

\* A server render: an application has been bootstrapped and rendered, and
\* annotateForHydration is entered (lines 98-100).
annotateForHydrationBegin ==
  /\ pc = "idle"
  /\ pc' = "loop" /\ k' = 1
  /\ viewRefs' \in RootLists
  /\ skip' \in SkipSets
  /\ numViews' \in 0..MaxViews
  /\ UNCHANGED <<text, tViewSsrId, ssrId, views, indexByContent, corruptedTextNodes,
                 attrs, after, transferState, addCalls, serialized,
                 setAttribute, inserted, setCalls, allSerializedViews>>

\* The render is over: the application, its document and its TransferState
\* are destroyed, and the next application is set up.  The TViews and the
\* counter tViewSsrId outlive it.
destroy ==
  /\ pc = "done"
  /\ pc' = "idle" /\ k' = 1 /\ viewRefs' = << >>
  /\ skip' = {} /\ text' \in TextVariants /\ numViews' = 0
  /\ views' = << >> /\ indexByContent' = << >>
  /\ corruptedTextNodes' = << >> /\ attrs' = << >> /\ after' = << >>
  /\ transferState' = << >>
  /\ addCalls' = << >> /\ serialized' = << >> /\ setAttribute' = << >>
  /\ inserted' = << >> /\ setCalls' = 0
  /\ allSerializedViews' = NoArray
  /\ UNCHANGED <<tViewSsrId, ssrId>>

\* Mutant: a root is annotated without looking at lView[HOST].
annotateForHydrationLoopNoHostCheck ==
  /\ pc = "loop" /\ k <= Len(viewRefs)
  /\ \E lView \in {getComponentLViewForHydration(ViewRefs[viewRefs[k]])} :
        IF lView # NullLView
        THEN \E before \in {Context} :
             \E context \in {annotateHostElementForHydration(lView.host, lView, before)} :
                /\ views' = context.views
                /\ indexByContent' = context.indexByContent
                /\ corruptedTextNodes' = context.corruptedTextNodes
                /\ tViewSsrId' = context.tViewSsrId
                /\ ssrId' = context.ssrId
                /\ attrs' = context.attrs
                /\ addCalls' = context.addCalls
                /\ serialized' = context.serialized
                /\ setAttribute' = context.setAttribute
                /\ after' = insertCorruptedTextNodeMarkers(context.corruptedTextNodes, after)
                /\ inserted' = Append(inserted, context.corruptedTextNodes)
        ELSE /\ inserted' = Append(inserted, << >>)
             /\ UNCHANGED <<views, indexByContent, corruptedTextNodes, tViewSsrId,
                            ssrId, attrs, addCalls, serialized, setAttribute, after>>
  /\ k' = k + 1
  /\ UNCHANGED <<pc, viewRefs, skip, text, numViews, transferState, setCalls,
                 allSerializedViews>>

\* One iteration of the loop over viewRefs (lines 101-116).
annotateForHydrationLoop ==
  /\ pc = "loop" /\ k <= Len(viewRefs)
  /\ \E lView \in {getComponentLViewForHydration(ViewRefs[viewRefs[k]])} :
        IF lView # NullLView /\ lView.host # NoNode
        THEN \E before \in {Context} :
             \E context \in {annotateHostElementForHydration(lView.host, lView, before)} :
                /\ views' = context.views
                /\ indexByContent' = context.indexByContent
                /\ corruptedTextNodes' = context.corruptedTextNodes
                /\ tViewSsrId' = context.tViewSsrId
                /\ ssrId' = context.ssrId
                /\ attrs' = context.attrs
                /\ addCalls' = context.addCalls
                /\ serialized' = context.serialized
                /\ setAttribute' = context.setAttribute
                /\ after' = insertCorruptedTextNodeMarkers(context.corruptedTextNodes, after)
                /\ inserted' = Append(inserted, context.corruptedTextNodes)
        ELSE /\ inserted' = Append(inserted, << >>)
             /\ UNCHANGED <<views, indexByContent, corruptedTextNodes, tViewSsrId,
                            ssrId, attrs, addCalls, serialized, setAttribute, after>>
  /\ k' = k + 1
  /\ UNCHANGED <<pc, viewRefs, skip, text, numViews, transferState, setCalls,
                 allSerializedViews>>

\* Mutant: the collection is published also when it is empty.
annotateForHydrationEndAlwaysPublishes ==
  /\ pc = "loop" /\ k > Len(viewRefs)
  /\ transferState' = (NGH_DATA_KEY :> getAll(Context)) @@ transferState
  /\ setCalls' = setCalls + 1
  /\ allSerializedViews' = ArrayReturned(getAll(Context))
  /\ pc' = "done"
  /\ UNCHANGED <<viewRefs, k, skip, text, numViews, tViewSsrId, ssrId, views,
                 indexByContent, corruptedTextNodes, attrs, after,
                 addCalls, serialized, setAttribute, inserted>>

\* After the loop (lines 117-121).
annotateForHydrationEnd ==
  /\ pc = "loop" /\ k > Len(viewRefs)
  /\ IF Len(getAll(Context)) > 0
     THEN /\ transferState' = (NGH_DATA_KEY :> getAll(Context)) @@ transferState
          /\ setCalls' = setCalls + 1
     ELSE UNCHANGED <<transferState, setCalls>>
  /\ allSerializedViews' = ArrayReturned(getAll(Context))
  /\ pc' = "done"
  /\ UNCHANGED <<viewRefs, k, skip, text, numViews, tViewSsrId, ssrId, views,
                 indexByContent, corruptedTextNodes, attrs, after,
                 addCalls, serialized, setAttribute, inserted>>

Next ==
  \/ annotateForHydrationBegin
  \/ annotateForHydrationLoop
  \/ annotateForHydrationEnd
  \/ destroy

Spec == Init /\ [][Next]_vars

\* ------------------------------------- the SerializedViewCollection alone
\* Descriptors as serializeLView returns them, the keys in the order the
\* slots populate them: of an empty view, of a view with one empty
\* container, with one container of one child view, and of views with a
\* template, a container and an element container in both orders.
SerializedViews ==
  { << >>,
    SetSlot(<< >>, CONTAINERS, 0, << >>),
    SetSlot(<< >>, CONTAINERS, 0,
            << <<Prop(TEMPLATE_ID, "t0"), Prop(NUM_ROOT_NODES, 1)>> >>),
    SetSlot(SetSlot(SetSlot(<< >>, TEMPLATES, 1, "t0"), CONTAINERS, 1, << >>),
            ELEMENT_CONTAINERS, 4, 1),
    SetSlot(SetSlot(SetSlot(<< >>, ELEMENT_CONTAINERS, 0, 1), CONTAINERS, 3, << >>),
            TEMPLATES, 3, "t0") }

\* collection.add(serializedView)
collectionAdd ==
  /\ Len(addCalls) < MaxAdds
  /\ \E serializedView \in SerializedViews :
       \E index \in {add(serializedView, Context)} :
         /\ views' = index.context.views
         /\ indexByContent' = index.context.indexByContent
         /\ addCalls' = index.context.addCalls
  /\ UNCHANGED <<pc, viewRefs, k, skip, text, numViews, tViewSsrId, ssrId,
                 corruptedTextNodes, attrs, after, transferState, serialized,
                 setAttribute, inserted, setCalls, allSerializedViews>>

\* const allSerializedViews = collection.getAll()
collectionGetAll ==
  /\ allSerializedViews' = ArrayReturned(getAll(Context))
  /\ UNCHANGED <<pc, viewRefs, k, skip, text, numViews, tViewSsrId, ssrId, views,
                 indexByContent, corruptedTextNodes, attrs, after, transferState,
                 addCalls, serialized, setAttribute, inserted, setCalls>>

NextCollection ==
  \/ collectionAdd
  \/ collectionGetAll

SpecCollection == Init /\ [][NextCollection]_vars

\* ------------------------------------------------------------- properties
Published == transferState[NGH_DATA_KEY]
IsPublished == NGH_DATA_KEY \in DOMAIN transferState

\* The descriptors serializeLView returned for the view of host `id`.
DescriptorsOf(id) ==
  { serialized[j].ngh : j \in { n \in 1..Len(serialized) : serialized[n].lView = id } }

\* C1: at the end of a pass, the ngh attribute of every annotated host is the
\* decimal string of an index i into the published collection, and the entry
\* published at i is content-equal to the descriptor serializeLView returned
\* for the view of that host.
C1_AttributeIndexesPublishedDescriptor ==
  pc = "done" =>
    \A id \in DOMAIN attrs :
      /\ IsPublished
      /\ DescriptorsOf(id) # {}
      /\ \E i \in 0..(Len(Published) - 1) :
           /\ attrs[id] = ToString(i)
           /\ \A ngh \in DescriptorsOf(id) : Canon(Published[i + 1]) = Canon(ngh)

C1_Witness ==
  /\ pc = "done"
  /\ Cardinality(DOMAIN attrs) >= 3
  /\ \E a, b \in DOMAIN attrs : attrs[a] = "0" /\ attrs[b] = "2"

\* C2: a call of add with a descriptor content-equal to one added earlier
\* returns the index of the earlier call and leaves the collection as it
\* was; adding the same descriptor twice in a row grows it by at most 1.
C2_AddIsIdempotent ==
  /\ \A m, n \in 1..Len(addCalls) :
       (m < n /\ Canon(addCalls[m].serializedView) = Canon(addCalls[n].serializedView))
         => /\ addCalls[n].index = addCalls[m].index
            /\ addCalls[n].after = addCalls[n].before
  /\ \A n \in 1..(Len(addCalls) - 1) :
       Canon(addCalls[n].serializedView) = Canon(addCalls[n + 1].serializedView)
         => /\ addCalls[n + 1].before = addCalls[n].after
            /\ Len(addCalls[n + 1].after) <= Len(addCalls[n].before) + 1

C2_Witness ==
  \E n \in 1..(Len(addCalls) - 1) :
    /\ Canon(addCalls[n].serializedView) = Canon(addCalls[n + 1].serializedView)
    /\ Len(addCalls[n].after) = Len(addCalls[n].before) + 1
    /\ addCalls[n + 1].index = addCalls[n].index
    /\ addCalls[n].index > 0

\* C3: the deduplicator is shared by the roots of a pass: hosts whose views
\* serialize to the same content get the same index, also across roots, the
\* collection holds one entry for that content, and the number of entries is
\* the number of distinct contents among the annotated hosts.
C3_DeduplicatedAcrossRoots ==
  /\ LET annotated == { [content |-> Canon(setAttribute[m].ngh),
                         value |-> setAttribute[m].value] :
                        m \in 1..Len(setAttribute) }
         stored == { [i |-> i, content |-> Canon(views[i])] : i \in 1..Len(views) }
     IN /\ \A a, b \in annotated : a.content = b.content => a.value = b.value
        /\ \A a \in annotated :
             Cardinality({ v \in stored : v.content = a.content }) = 1
        /\ Len(views) = Cardinality({ a.content : a \in annotated })
  /\ (pc = "done" /\ setAttribute # << >>) => (IsPublished /\ Published = views)

C3_Witness ==
  /\ pc = "done" /\ viewRefs = <<"r1", "r2">>
  /\ <<"r1", 1>> \in DOMAIN attrs /\ <<"r2", 1>> \in DOMAIN attrs
  /\ attrs[<<"r1", 1>>] = attrs[<<"r2", 1>>]
  /\ Cardinality({ i \in 1..Len(Published) :
                     Canon(Published[i]) = Canon(CHOOSE d \in DescriptorsOf(<<"r1", 1>>) : TRUE) }) = 1

\* C4: an ssrId, once assigned, never changes; distinct TViews never hold the
\* same ssrId; the counter only increases, by one per newly identified TView
\* (so not for a TView that already has an id), and the ids handed out so far
\* are exactly t0 .. t(tViewSsrId-1).  Holds across passes.
Identified(f) == { tv \in TViewNames : f[tv] # Undefined }

C4_SsrIdAssignedOnce ==
  [][ /\ \A tv \in Identified(ssrId) : ssrId'[tv] = ssrId[tv]
      /\ tViewSsrId' >= tViewSsrId
      /\ tViewSsrId' - tViewSsrId = Cardinality(Identified(ssrId') \ Identified(ssrId))
      /\ \A a, b \in Identified(ssrId') : a # b => ssrId'[a] # ssrId'[b]
      /\ { ssrId'[tv] : tv \in Identified(ssrId') }
           = { "t" \o ToString(n) : n \in 0..(tViewSsrId' - 1) } ]_vars

C4_Witness ==
  /\ pc = "done" /\ viewRefs = <<"r1">>
  /\ tViewSsrId = 2 /\ ssrId["Item"] = "t1" /\ ssrId["Item2"] = "t0"
  /\ \E n \in 1..Len(serialized) :
       /\ HasKey(serialized[n].ngh, TEMPLATES)
       /\ \E off \in DOMAIN Get(serialized[n].ngh, TEMPLATES) :
            Get(serialized[n].ngh, TEMPLATES)[off] = "t1"

\* ----- structure the properties below refer to
\* The text slots of the view an entry of `serialized` is about.
TextSlots(tv) ==
  { p \in 1..Len(TViews[tv].data) :
      TViews[tv].data[p].tNode # Null /\ TViews[tv].data[p].holds = "RNode"
      /\ TViews[tv].data[p].tNode.type = "Text" }

\* The container slots of a view.
ContainerSlots(tv) ==
  { p \in 1..Len(TViews[tv].data) :
      TViews[tv].data[p].tNode # Null /\ TViews[tv].data[p].holds = "LContainer" }

\* The offsets a descriptor has an entry for, under any key.
OffsetsOf(ngh) ==
  UNION { DOMAIN Get(ngh, key) :
            key \in { kk \in {TEMPLATES, CONTAINERS, ELEMENT_CONTAINERS} : HasKey(ngh, kk) } }

\* A descriptor without its TEMPLATE_ID and NUM_ROOT_NODES.
ViewPart(entry) ==
  SelectSeq(entry, LAMBDA pr : pr.k \notin {TEMPLATE_ID, NUM_ROOT_NODES})

\* A bootstrapped view with no component view, or whose component view has
\* no host element.
IsSkippedRoot(r) ==
  \/ TViews[ViewRefs[r].tv].type = "Embedded"
  \/ (ViewRefs[r].id \o <<1>>) \in Hostless

\* C5: a host element that carries ngSkipHydration never receives the ngh
\* attribute and no descriptor of its view is added to the collection,
\* whether the host is a bootstrapped root, a component slot or the
\* component host of a container.  (Every descriptor of a host's view is
\* added in the call that sets the attribute, which setAttribute records.)
C5_OptedOutHostNeverAnnotated ==
  \A j \in 1..Len(setAttribute) : ~setAttribute[j].element.skipHydration

\* The part of C5 the code provides: inside a view, an opted-out component
\* slot or container host is never annotated.
C5_OptedOutInsideViewNeverAnnotated ==
  \A j \in 1..Len(setAttribute) :
    setAttribute[j].element.skipHydration => Len(setAttribute[j].element.id) = 2

\* C6: the markers inserted after root k are those of text nodes recorded
\* while root k was serialized, so at the end of a pass every recorded text
\* node is followed by exactly one marker.
C6_FreshCorruptionMapPerRoot ==
  /\ \A j \in 1..Len(inserted) :
       \A id \in DOMAIN inserted[j] : id[1] = viewRefs[j]
  /\ pc = "done" =>
       /\ DOMAIN after = DOMAIN corruptedTextNodes
       /\ \A id \in DOMAIN after : after[id] = <<corruptedTextNodes[id]>>

\* C7: transferState.set is called at most once in a pass, never while the
\* roots are being processed, and, once the pass is over, exactly when the
\* collection is non-empty, that is when a host was annotated; it is given
\* the whole collection, in order.
C7_PublishedOnceAfterAllRoots ==
  /\ setCalls <= 1
  /\ IsPublished <=> setCalls = 1
  /\ pc = "loop" => setCalls = 0
  /\ pc = "done" =>
       /\ setCalls = 1 <=> Len(views) > 0
       /\ Len(views) > 0 <=> setAttribute # << >>
       /\ IsPublished => Published = views

C7_Witness ==
  /\ pc = "done" /\ Len(viewRefs) = 2 /\ setCalls = 1
  /\ Len(Published) >= 3 /\ Published = views

\* C8: for every text slot serializeLView has visited: when the content of
\* the text node is only whitespace, EmptyNode is recorded for it, also when
\* a text node follows; otherwise Separator is recorded when a text node
\* follows; otherwise nothing is recorded.  The descriptor has no entry at
\* the offset of a text slot.
C8_TextMarkerRule ==
  \A n \in 1..Len(serialized) : \A p \in TextSlots(serialized[n].tv) :
    LET lView == LViewOf(serialized[n].lView, serialized[n].tv)
        node == lView.id \o <<p>>
        blank == \A j \in 1..Len(TextAt(lView, p).content) :
                   TextAt(lView, p).content[j] \in Whitespace
    IN /\ blank => (node \in DOMAIN corruptedTextNodes
                     /\ corruptedTextNodes[node] = EmptyNode)
       /\ (~blank /\ TextAt(lView, p).nextIsText) =>
            (node \in DOMAIN corruptedTextNodes
              /\ corruptedTextNodes[node] = Separator)
       /\ (~blank /\ ~TextAt(lView, p).nextIsText) =>
            node \notin DOMAIN corruptedTextNodes
       /\ (p - 1) \notin OffsetsOf(serialized[n].ngh)

C8_Witness ==
  /\ \E n \in 1..Len(serialized) : \E p \in TextSlots(serialized[n].tv) :
       LET lView == LViewOf(serialized[n].lView, serialized[n].tv)
       IN /\ TextAt(lView, p).content = <<" ", "\n">>
          /\ TextAt(lView, p).nextIsText
          /\ corruptedTextNodes[lView.id \o <<p>>] = EmptyNode
  /\ \E n \in 1..Len(serialized) : \E p \in TextSlots(serialized[n].tv) :
       LET lView == LViewOf(serialized[n].lView, serialized[n].tv)
       IN /\ TextAt(lView, p).content = <<"a", " ">>
          /\ corruptedTextNodes[lView.id \o <<p>>] = Separator
  /\ \E n \in 1..Len(serialized) : \E p \in TextSlots(serialized[n].tv) :
       (serialized[n].lView \o <<p>>) \notin DOMAIN corruptedTextNodes

\* C9: for every container slot of a serialized view, CONTAINERS has an
\* entry at the slot's offset: the list with one entry per child view, in
\* container order, each the descriptor of that child view (the empty list
\* for no child view); TEMPLATES has an entry at the offset exactly when the
\* anchor tNode has an embedded TView, and it is the ssrId of that TView.  A
\* descriptor that is only CONTAINERS[offset] = [] is added and indexed.
C9_ContainersAlwaysRegistered ==
  /\ \A n \in 1..Len(serialized) : \A p \in ContainerSlots(serialized[n].tv) :
       LET ngh == serialized[n].ngh
           lContainer == LContainerAt(LViewOf(serialized[n].lView, serialized[n].tv), p)
           embeddedTView == TViews[serialized[n].tv].data[p].tNode.tView
       IN /\ HasKey(ngh, CONTAINERS)
          /\ (p - 1) \in DOMAIN Get(ngh, CONTAINERS)
          /\ Len(Get(ngh, CONTAINERS)[p - 1]) = Len(lContainer.views)
          /\ \A i \in 1..Len(lContainer.views) :
               /\ DescriptorsOf(lContainer.views[i].id) # {}
               /\ \A child \in DescriptorsOf(lContainer.views[i].id) :
                    Canon(ViewPart(Get(ngh, CONTAINERS)[p - 1][i])) = Canon(child)
          /\ (HasKey(ngh, TEMPLATES) /\ (p - 1) \in DOMAIN Get(ngh, TEMPLATES))
               <=> embeddedTView # NoTView
          /\ embeddedTView # NoTView =>
               /\ ssrId[embeddedTView] # Undefined
               /\ Get(ngh, TEMPLATES)[p - 1] = ssrId[embeddedTView]
  /\ \A j \in 1..Len(setAttribute) :
       (\E off \in 0..5 : Canon(setAttribute[j].ngh)
                            = Canon(<<Prop(CONTAINERS, (off :> << >>))>>))
         => \E i \in 0..(Len(views) - 1) :
              /\ setAttribute[j].value = ToString(i)
              /\ Canon(views[i + 1]) = Canon(setAttribute[j].ngh)

C9_Witness ==
  /\ pc = "done" /\ numViews = 2
  /\ \E j \in 1..Len(setAttribute) :
       /\ setAttribute[j].ngh = <<Prop(CONTAINERS, (0 :> << >>))>>
       /\ Canon(views[1]) = Canon(setAttribute[j].ngh)
       /\ setAttribute[j].value = "0"
  /\ \E n \in 1..Len(serialized) :
       /\ serialized[n].tv = "App2"
       /\ Len(Get(serialized[n].ngh, CONTAINERS)[2]) = 2
       /\ Get(Get(serialized[n].ngh, CONTAINERS)[2][1], TEMPLATE_ID)
            # Get(Get(serialized[n].ngh, CONTAINERS)[2][2], TEMPLATE_ID)
       /\ Len(Get(serialized[n].ngh, CONTAINERS)[3]) = 2
       /\ ViewPart(Get(serialized[n].ngh, CONTAINERS)[3][1]) # << >>
       /\ 2 \notin DOMAIN Get(serialized[n].ngh, TEMPLATES)
       /\ 3 \in DOMAIN Get(serialized[n].ngh, TEMPLATES)

\* C10: the loop iteration of a root with no component view, or with no host
\* element, changes nothing but the position of the loop: no attribute, no
\* descriptor, no corruption record, no marker; the loop goes on with the
\* next root.  When every root of a pass is skipped, nothing is published.
C10_SkippedRootHasNoEffect ==
  /\ [][ (pc = "loop" /\ k <= Len(viewRefs) /\ IsSkippedRoot(viewRefs[k])) =>
           /\ UNCHANGED <<views, indexByContent, corruptedTextNodes, attrs, after,
                          transferState, tViewSsrId, ssrId, addCalls, serialized,
                          setAttribute, setCalls, viewRefs>>
           /\ k' = k + 1 /\ pc' = "loop" ]_vars
  /\ [](( /\ pc = "done"
          /\ \A j \in 1..Len(viewRefs) : IsSkippedRoot(viewRefs[j]) )
          => (~IsPublished /\ setCalls = 0 /\ attrs = << >> /\ after = << >>))

C10_Witness ==
  /\ pc = "done" /\ Len(viewRefs) = 2
  /\ IsSkippedRoot(viewRefs[1]) /\ ~IsSkippedRoot(viewRefs[2])
  /\ inserted[1] = << >>
  /\ Len(setAttribute) > 0 /\ setAttribute[1].lView[1] = viewRefs[2]
  /\ IsPublished

\* The TView whose template a child view of a container instantiates: of the
\* component under it when the child view is a root view.
ChildTView(child) ==
  IF isRootView(child) THEN TViews[child.tv].data[1].comp ELSE child.tv

\* The container entries serializeLContainer produced, each with the child
\* view it describes: [entry, child].
ContainerEntries ==
  UNION { UNION { { [entry |-> Get(serialized[n].ngh, CONTAINERS)[p - 1][i],
                     child |-> LContainerAt(LViewOf(serialized[n].lView,
                                                    serialized[n].tv), p).views[i]] :
                    i \in 1..Len(Get(serialized[n].ngh, CONTAINERS)[p - 1]) } :
                  p \in ContainerSlots(serialized[n].tv) } :
          n \in 1..Len(serialized) }

\* C11: every container entry carries a defined TEMPLATE_ID, the ssrId held
\* by the TView of the child view it describes, for child views of a
\* component as for embedded child views, also when that TView had no ssrId
\* before serializeLContainer reached it.
C11_EntryCarriesTemplateId ==
  \A e \in ContainerEntries :
    /\ HasKey(e.entry, TEMPLATE_ID)
    /\ Get(e.entry, TEMPLATE_ID) # Undefined
    /\ Get(e.entry, TEMPLATE_ID) = ssrId[ChildTView(e.child)]

\* The part of C11 the code provides: the entry of an embedded child view
\* carries the ssrId of its TView.
C11_EmbeddedEntryCarriesTemplateId ==
  \A e \in ContainerEntries :
    TViews[ChildTView(e.child)].type # "Component" =>
      /\ Get(e.entry, TEMPLATE_ID) # Undefined
      /\ Get(e.entry, TEMPLATE_ID) = ssrId[ChildTView(e.child)]

\* C12: the key add computes depends on the content of the descriptor alone:
\* two descriptors serializeLView produced that are equal as mappings have
\* the same JSON string, and add gives them the same index, whatever the
\* order in which the slots populated TEMPLATES, CONTAINERS and
\* ELEMENT_CONTAINERS.
C12_KeyIsFunctionOfContent ==
  LET returned == { [content |-> Canon(serialized[n].ngh),
                     key |-> JSONstringify(serialized[n].ngh)] :
                    n \in 1..Len(serialized) }
      added == { [content |-> Canon(addCalls[n].serializedView),
                  key |-> JSONstringify(addCalls[n].serializedView),
                  index |-> addCalls[n].index] :
                 n \in 1..Len(addCalls) }
  IN /\ \A a, b \in returned : a.content = b.content => a.key = b.key
     /\ \A a, b \in added :
          a.content = b.content => a.key = b.key /\ a.index = b.index

C12_Witness ==
  /\ \E m, n \in 1..Len(serialized) :
       /\ Len(serialized[m].ngh) = 3 /\ serialized[m].ngh[1].k = TEMPLATES
       /\ Len(serialized[n].ngh) = 3 /\ serialized[n].ngh[1].k = ELEMENT_CONTAINERS
  /\ \E m, n \in 1..Len(serialized) :
       /\ serialized[m].lView # serialized[n].lView
       /\ serialized[m].ngh # << >>
       /\ Canon(serialized[m].ngh) = Canon(serialized[n].ngh)
  /\ \E m, n \in 1..Len(setAttribute) :
       /\ setAttribute[m].lView # setAttribute[n].lView
       /\ Canon(setAttribute[m].ngh) = Canon(setAttribute[n].ngh)
       /\ setAttribute[m].value = setAttribute[n].value

\* Sequence a is a prefix of sequence b.
IsPrefix(a, b) == Len(a) <= Len(b) /\ SubSeq(b, 1, Len(a)) = a

\* The position of a bootstrapped view in appRef._views.
RootPos(r) == CHOOSE j \in 1..Len(viewRefs) : viewRefs[j] = r

\* View h comes before view g in a depth-first pass that takes the roots in
\* order and the slots in ascending order, a container's component host
\* (path p, 0) before its child views (paths p, 1 ..), and finishes what is
\* nested in a view before the view.
DepthFirstBefore(h, g) ==
  IF h[1] # g[1] THEN RootPos(h[1]) < RootPos(g[1])
  ELSE IF IsPrefix(g, h) THEN Len(h) > Len(g)
  ELSE IF IsPrefix(h, g) THEN FALSE
  ELSE LET d == CHOOSE j \in 1..Len(h) :
                  h[j] # g[j] /\ SubSeq(h, 1, j - 1) = SubSeq(g, 1, j - 1)
       IN h[d] < g[d]

\* The host of entry j of setAttribute added a descriptor that was not in
\* the collection.
AddedNew(j) == addCalls[j].after # addCalls[j].before

\* C13: hosts are annotated in the order of a depth-first pass: roots in
\* bootstrap order, slots in ascending order, every component nested in a
\* view (in a component slot or as the host of a container) with its
\* attribute set and its descriptor added before the descriptor of the
\* containing view is added, and the component host of a container before
\* any child view of the container is serialized.  When a nested host and
\* its containing host both add a new descriptor, the nested host's index
\* is the smaller.
C13_DepthFirstHostFirst ==
  /\ Len(addCalls) = Len(setAttribute)
  /\ \A j \in 1..Len(setAttribute) :
       /\ addCalls[j].serializedView = setAttribute[j].ngh
       /\ setAttribute[j].value = ToString(addCalls[j].index)
  /\ \A m, n \in 1..Len(setAttribute) :
       m < n => DepthFirstBefore(setAttribute[m].lView, setAttribute[n].lView)
  /\ \A j \in 1..Len(setAttribute) : \A n \in 1..Len(serialized) :
       LET host == setAttribute[j].lView
           view == serialized[n].lView
       IN ( /\ host[Len(host)] = 0
            /\ Len(view) >= Len(host)
            /\ SubSeq(view, 1, Len(host) - 1) = SubSeq(host, 1, Len(host) - 1)
            /\ view[Len(host)] >= 1 )
          => n > setAttribute[j].at
  /\ \A m, n \in 1..Len(setAttribute) :
       ( /\ m # n
         /\ IsPrefix(setAttribute[n].lView, setAttribute[m].lView)
         /\ AddedNew(m) /\ AddedNew(n) )
       => addCalls[m].index < addCalls[n].index

C13_Witness ==
  /\ pc = "done" /\ Len(viewRefs) = 2 /\ numViews = 2
  /\ \E m, n \in 1..Len(setAttribute) :
       /\ setAttribute[m].lView[Len(setAttribute[m].lView)] = 0
       /\ IsPrefix(setAttribute[n].lView, setAttribute[m].lView)
       /\ AddedNew(m) /\ AddedNew(n)
       /\ addCalls[m].index < addCalls[n].index
       /\ \E c \in 1..Len(serialized) :
            /\ c > setAttribute[m].at
            /\ serialized[c].tv = "LeafRoot"
  /\ setAttribute[1].lView[1] = viewRefs[1]
  /\ setAttribute[Len(setAttribute)].lView = <<viewRefs[2], 1>>

\* The view or node with path id, followed from position j of the path in a
\* view of tView tv, lies at or under a host that carries ngSkipHydration.
\* roots: the host of a bootstrapped root counts; containers: the child
\* views of a container whose component host is opted out count.
RECURSIVE OptedOutOnPath(_, _, _, _, _)
OptedOutOnPath(id, j, tv, roots, containers) ==
  IF j > Len(id) THEN FALSE
  ELSE
    LET slot == TViews[tv].data[id[j]]
        optedOut == Site(tv, id[j]) \in skip
    IN IF slot.holds = "LView"
       THEN \/ optedOut /\ (roots \/ j > 2)
            \/ OptedOutOnPath(id, j + 1, slot.comp, roots, containers)
       ELSE IF slot.holds = "LContainer" /\ j < Len(id)
       THEN IF id[j + 1] = 0
            THEN \/ optedOut
                 \/ OptedOutOnPath(id, j + 2, slot.comp, roots, containers)
            ELSE \/ optedOut /\ containers
                 \/ OptedOutOnPath(id, j + 2,
                      slot.views[((id[j + 1] - 1) % Len(slot.views)) + 1],
                      roots, containers)
       ELSE FALSE

UnderOptedOutHost(id) == OptedOutOnPath(id, 2, ViewRefs[id[1]].tv, TRUE, TRUE)

\* C14: serializeLView is never run on the view of an opted-out component
\* nor on anything under it: no view there is serialized, no host there is
\* annotated, no text node there gets a corruption record; the child views
\* of a container whose component host is opted out are not serialized
\* either.
C14_OptedOutHostNotRecursedInto ==
  /\ \A n \in 1..Len(serialized) : ~UnderOptedOutHost(serialized[n].lView)
  /\ \A j \in 1..Len(setAttribute) : ~UnderOptedOutHost(setAttribute[j].lView)
  /\ \A id \in DOMAIN corruptedTextNodes : ~UnderOptedOutHost(id)

\* The part of C14 the code provides: nothing is serialized, annotated or
\* recorded in or under the view of an opted-out component that is in a
\* component slot or is the host of a container.
C14_OptedOutViewInsideViewNotRecursedInto ==
  /\ \A n \in 1..Len(serialized) :
       ~OptedOutOnPath(serialized[n].lView, 2,
                       ViewRefs[serialized[n].lView[1]].tv, FALSE, FALSE)
  /\ \A j \in 1..Len(setAttribute) :
       ~OptedOutOnPath(setAttribute[j].lView, 2,
                       ViewRefs[setAttribute[j].lView[1]].tv, FALSE, FALSE)
  /\ \A id \in DOMAIN corruptedTextNodes :
       ~OptedOutOnPath(id, 2, ViewRefs[id[1]].tv, FALSE, FALSE)

\* The part of C14 about containers alone: no child view of a container
\* whose component host is opted out is serialized.
C14_ContainerOfOptedOutHostNotRecursedInto ==
  \A n \in 1..Len(serialized) :
    OptedOutOnPath(serialized[n].lView, 2,
                   ViewRefs[serialized[n].lView[1]].tv, FALSE, TRUE)
      => OptedOutOnPath(serialized[n].lView, 2,
                        ViewRefs[serialized[n].lView[1]].tv, FALSE, FALSE)

\* The element-container slots of a view.
ElementContainerSlots(tv) ==
  { p \in 1..Len(TViews[tv].data) :
      TViews[tv].data[p].tNode # Null /\ TViews[tv].data[p].holds = "RNode"
      /\ TViews[tv].data[p].tNode.type = "ElementContainer" }

\* The LView whose nodes serializeLContainer counts for a child view: the
\* component LView under it when the child view is a root view.
ChildLView(child) ==
  IF isRootView(child) THEN ComponentLViewAt(child, 1) ELSE child

ElementsOf(array) == IF array.array = "this.views" THEN views ELSE array.atCall

\* C16: the sequence getAll returned keeps the length and the contents it
\* had when it was returned, whatever is added to the collection afterwards.
C16_GetAllReturnsSnapshot ==
  allSerializedViews # NoArray =>
    ElementsOf(allSerializedViews) = allSerializedViews.atCall

\* C17: after any sequence of add calls the stored entries are pairwise
\* distinct in content, the indices handed out are exactly 0 .. n-1 for n
\* stored entries, an entry is stored at the end when its content is first
\* added, and nothing stored is ever moved or changed: the index a call
\* returned refers to the content of that call after every later call.
C17_DenseAppendOnlyTable ==
  /\ \A a, b \in 1..Len(views) : a # b => Canon(views[a]) # Canon(views[b])
  /\ { addCalls[n].index : n \in 1..Len(addCalls) } = 0..(Len(views) - 1)
  /\ \A n \in 1..Len(addCalls) :
       /\ addCalls[n].before = IF n = 1 THEN << >> ELSE addCalls[n - 1].after
       /\ \/ addCalls[n].after = addCalls[n].before
          \/ /\ addCalls[n].after =
                  Append(addCalls[n].before, addCalls[n].serializedView)
             /\ addCalls[n].index = Len(addCalls[n].before)
  /\ addCalls # << >> => views = addCalls[Len(addCalls)].after
  /\ \A m, n \in 1..Len(addCalls) :
       m <= n => /\ addCalls[m].index < Len(addCalls[n].after)
                 /\ Canon(addCalls[n].after[addCalls[m].index + 1])
                      = Canon(addCalls[m].serializedView)

C17_Witness ==
  /\ Len(addCalls) = 3 /\ Len(views) = 2
  /\ addCalls[3].index = 0 /\ addCalls[3].after = addCalls[3].before
  /\ addCalls[2].index = 1
  /\ views[1] # << >>

\* The offsets a descriptor has under a key; none when the key is absent.
OffsetsUnder(ngh, key) == IF HasKey(ngh, key) THEN DOMAIN Get(ngh, key) ELSE {}

\* C18: a descriptor serializeLView returns has only the keys TEMPLATES,
\* CONTAINERS and ELEMENT_CONTAINERS, each at most once and only when a slot
\* populated it (the descriptor of a view whose slots populate nothing is
\* empty); an offset under TEMPLATES is also under CONTAINERS; no offset is
\* under both ELEMENT_CONTAINERS and CONTAINERS; every offset is one of
\* 0 .. bindingStartIndex - HEADER_OFFSET - 1; an empty slot of tView.data,
\* like every slot that is not a container or an element container,
\* contributes nothing.
C18_DescriptorWellFormed ==
  \A n \in 1..Len(serialized) :
    LET ngh == serialized[n].ngh
        tv == serialized[n].tv
    IN /\ \A j \in 1..Len(ngh) :
            /\ ngh[j].k \in {TEMPLATES, CONTAINERS, ELEMENT_CONTAINERS}
            /\ DOMAIN ngh[j].v # {}
            /\ \A i \in 1..Len(ngh) : ngh[i].k = ngh[j].k => i = j
       /\ OffsetsUnder(ngh, TEMPLATES) \subseteq OffsetsUnder(ngh, CONTAINERS)
       /\ OffsetsUnder(ngh, ELEMENT_CONTAINERS) \cap OffsetsUnder(ngh, CONTAINERS) = {}
       /\ OffsetsOf(ngh) \subseteq 0..(Len(TViews[tv].data) - 1)
       /\ OffsetsUnder(ngh, CONTAINERS) = { p - 1 : p \in ContainerSlots(tv) }
       /\ OffsetsUnder(ngh, ELEMENT_CONTAINERS)
            = { p - 1 : p \in ElementContainerSlots(tv) }
       /\ (ContainerSlots(tv) \cup ElementContainerSlots(tv) = {}) => ngh = << >>

C18_Witness ==
  /\ \E n \in 1..Len(serialized) :
       /\ serialized[n].ngh = << >>
       /\ Len(TViews[serialized[n].tv].data) > 0
  /\ \E n \in 1..Len(serialized) :
       /\ Len(serialized[n].ngh) = 3
       /\ \E p \in 1..Len(TViews[serialized[n].tv].data) :
            /\ TViews[serialized[n].tv].data[p].tNode = Null
            /\ (p - 1) \notin OffsetsOf(serialized[n].ngh)
       /\ OffsetsUnder(serialized[n].ngh, TEMPLATES) # {}
  /\ \E n \in 1..Len(serialized) :
       /\ OffsetsUnder(serialized[n].ngh, CONTAINERS) # {}
       /\ OffsetsUnder(serialized[n].ngh, TEMPLATES)
            # OffsetsUnder(serialized[n].ngh, CONTAINERS)

\* The component views in and under the view with path id and tView tv:
\* those in component slots, the component hosts of containers, and those in
\* and under the child views of containers.
RECURSIVE ComponentViewsIn(_, _)
ComponentViewsIn(id, tv) ==
  UNION { LET slot == TViews[tv].data[p] IN
          IF slot.tNode = Null THEN {}
          ELSE IF slot.holds = "LView"
          THEN {id \o <<p>>} \cup ComponentViewsIn(id \o <<p>>, slot.comp)
          ELSE IF slot.holds = "LContainer"
          THEN (IF slot.comp # NoTView
                THEN {id \o <<p, 0>>} \cup ComponentViewsIn(id \o <<p, 0>>, slot.comp)
                ELSE {})
               \cup UNION { ComponentViewsIn(id \o <<p, n>>,
                              slot.views[((n - 1) % Len(slot.views)) + 1]) :
                            n \in 1..(IF slot.views = << >> THEN 0 ELSE numViews) }
          ELSE {} :
          p \in 1..Len(TViews[tv].data) }

\* The component views of the pass that are not opted out and not inside the
\* view of an opted-out component, under the roots that have a host.
ComponentViewsToAnnotate ==
  UNION { { h \in ComponentViewsIn(<<viewRefs[j]>>, ViewRefs[viewRefs[j]].tv) :
              /\ ~OptedOutOnPath(h, 2, ViewRefs[viewRefs[j]].tv, FALSE, FALSE)
              /\ Site(ViewRefs[viewRefs[j]].tv, 1) \notin skip } :
          j \in { i \in 1..Len(viewRefs) : ~IsSkippedRoot(viewRefs[i]) } }

\* The pass runs to its end once entered: the loop is a synchronous
\* traversal that nothing suspends.
SpecLive ==
  Spec /\ WF_vars(annotateForHydrationLoop) /\ WF_vars(annotateForHydrationEnd)

\* C19: a pass over a finite tree of views and containers ends; in a pass no
\* view is serialized twice and no host has its attribute set twice, and at
\* the end every component view that is reachable and not opted out has
\* been serialized once, as the view of a host, and its host has had the
\* attribute set once.
C19_PassTerminatesEachHostOnce ==
  /\ (pc = "loop") ~> (pc = "done")
  /\ [](\A m, n \in 1..Len(setAttribute) :
          m # n => /\ setAttribute[m].lView # setAttribute[n].lView
                   /\ setAttribute[m].element.id # setAttribute[n].element.id)
  /\ [](\A m, n \in 1..Len(serialized) :
          m # n => serialized[m].lView # serialized[n].lView)
  /\ [](pc = "done" =>
          \A h \in ComponentViewsToAnnotate :
            /\ Cardinality({ j \in 1..Len(setAttribute) :
                               setAttribute[j].lView = h
                               /\ setAttribute[j].element.id = h }) = 1
            /\ Cardinality({ n \in 1..Len(serialized) : serialized[n].lView = h }) = 1
            /\ h \in DOMAIN attrs)

C19_Witness ==
  /\ pc = "done" /\ Len(viewRefs) = 2 /\ numViews = 2
  /\ Cardinality(ComponentViewsToAnnotate) >= 6
  /\ Len(setAttribute) = Cardinality(ComponentViewsToAnnotate)
  /\ \E h \in ComponentViewsToAnnotate : Len(h) >= 5
====
